---- MODULE Spec2Model ----
(***************************************************************************)
(* Model of mf_triage.py, a Volatility 3 wrapper: find_vol probes the      *)
(* candidate commands, main creates the case directory, runs every plugin  *)
(* through run_plugin (one child process at a time, output captured in     *)
(* <outdir>/raw/<safe>.txt) and writes <outdir>/INDEX.md.                  *)
(*                                                                         *)
(* Strings are sequences of tokens ("windows.pslist" is                    *)
(* <<"windows", ".", "pslist">>), so that str.replace and the path join of *)
(* pathlib are computed, not assumed.  A path is the sequence of its       *)
(* components (pathlib's parts); an absolute path starts with the          *)
(* component <<"/">>.  A file's content is the sequence of chunks written  *)
(* into it since it was last truncated.                                    *)
(***************************************************************************)
EXTENDS Integers, Sequences, FiniteSets, TLC

VARIABLES pc, plugins, k, probes, vol, i, summary, target, dirs, files,
          running, spawned, opened, exitCode, indexWrites, childFailed,
          dirs0, files0, prevDone, rerun, plugins_given

vars == <<pc, plugins, k, probes, vol, i, summary, target, dirs, files,
          running, spawned, opened, exitCode, indexWrites, childFailed,
          dirs0, files0, prevDone, rerun, plugins_given>>

-----------------------------------------------------------------------------
(* Bounds and inputs                                                       *)

\* longest plugin list given with --plugins
MaxPlugins == 2

DEFAULT_PLUGINS ==
    << <<"windows", ".", "pslist">>,
       <<"windows", ".", "pstree">>,
       <<"windows", ".", "netscan">>,
       <<"windows", ".", "dlllist">>,
       <<"windows", ".", "cmdline">>,
       <<"windows", ".", "malfind">> >>

CANDIDATE_CMDS == << <<"vol">>, <<"vol", ".", "py">>, <<"volatility3">> >>

\* plugin names a user may pass with --plugins: a dotted name, a name that
\* differs from it only in the separator, an absolute path and a name with
\* a path separator inside
UserPluginNames ==
    { <<"windows", ".", "pslist">>,
      <<"windows", "_", "pslist">>,
      <<"/", "evil">>,
      <<"windows", "/", "pslist">> }

RECURSIVE SeqsUpTo(_, _)
SeqsUpTo(S, n) ==
    IF n = 0 THEN { <<>> }
    ELSE LET shorter == SeqsUpTo(S, n - 1)
         IN  shorter \cup { Append(s, e) : s \in shorter, e \in S }

\* the command lines: without --plugins, or with --plugins and a list of
\* names (nargs="*": the list may be empty)
CommandLines ==
    { [plugins_given |-> FALSE] }
    \cup { [plugins_given |-> TRUE, plugins |-> P] :
             P \in SeqsUpTo(UserPluginNames, MaxPlugins) }

\* args.plugins as argparse leaves it: default=DEFAULT_PLUGINS
parse_plugins(cmdline) ==
    IF cmdline.plugins_given THEN cmdline.plugins ELSE DEFAULT_PLUGINS

\* args.file and args.outdir of the usage example
Image == <<"mem", ".", "raw">>
Outdir == << <<"cases">>, <<"CASE001">> >>

\* return codes of a child: success, usage shown, error, killed by a signal
ReturnCodes == { 0, 1, 2, -9 }

\* what subprocess.run([c, "-h"]) can do in find_vol
ProbeOutcomes ==
    { [exc |-> "FileNotFoundError"], [exc |-> "OSError"] }
    \cup { [returncode |-> rc] : rc \in ReturnCodes }

None == <<>>

-----------------------------------------------------------------------------
(* Pure functions                                                          *)

\* str.replace(old, new) with one-character old and new
replace(s, old, new) ==
    [ j \in 1..Len(s) |-> IF s[j] = old THEN new ELSE s[j] ]

\* a sanitizer that leaves the name as it is
safe_name_unchanged(plg) == plg

\* plg.replace(".", "_")
safe_name(plg) == replace(plg, ".", "_")

\* f"{safe}.txt"
txt_name(safe) == Append(safe, ".txt")

\* the components of a path string: split at "/", empty components dropped
RECURSIVE parts(_)
parts(s) ==
    IF s = <<>> THEN <<>>
    ELSE IF Head(s) = "/" THEN parts(Tail(s))
    ELSE LET rest == parts(Tail(s))
         IN  IF Len(s) > 1 /\ s[2] # "/"
             THEN <<  <<Head(s)>> \o Head(rest) >> \o Tail(rest)
             ELSE << <<Head(s)>> >> \o rest

is_absolute(s) == s # <<>> /\ Head(s) = "/"

\* pathlib's  base / s : an absolute right operand replaces the base
joinpath(base, s) ==
    IF is_absolute(s) THEN << <<"/">> >> \o parts(s) ELSE base \o parts(s)

RawDir == joinpath(Outdir, <<"raw">>)
IndexPath == joinpath(Outdir, <<"INDEX", ".", "md">>)

\* outdir/"raw"/f"{safe}.txt"
target_of(plg) == joinpath(RawDir, txt_name(safe_name(plg)))

parent(p) == SubSeq(p, 1, Len(p) - 1)

\* the path itself and all its ancestors
ancestors(p) == { SubSeq(p, 1, n) : n \in 0..Len(p) }

\* [vol, "-f", img, plugin]
argv_of(volcmd, img, plg) == << volcmd, <<"-f">>, img, plg >>

-----------------------------------------------------------------------------
(* File contents                                                           *)

\* whatever a file held when the current run started
Stale == [stale |-> TRUE]

age(content) == IF content = <<>> THEN <<>> ELSE << Stale >>

\* open(path, "a"): created if absent, the content is kept
open_a(fs, p) ==
    [ q \in DOMAIN fs \cup {p} |-> IF q \in DOMAIN fs THEN fs[q] ELSE <<>> ]

\* open(path, "w"): created if absent, truncated otherwise
open_w(fs, p) == [ q \in DOMAIN fs \cup {p} |-> IF q = p THEN <<>> ELSE fs[q] ]

\* a write through an open descriptor appends at the file's end
write_chunk(fs, p, chunk) == [ fs EXCEPT ![p] = Append(@, chunk) ]

-----------------------------------------------------------------------------
(* State machine                                                           *)

Init ==
    /\ pc = "idle"
    /\ plugins = <<>>
    /\ k = 1
    /\ probes = <<>>
    /\ vol = None
    /\ i = 1
    /\ summary = <<>>
    /\ target = <<>>
    /\ dirs = { <<>>, << <<"/">> >> }
    /\ files = <<>>
    /\ running = {}
    /\ spawned = <<>>
    /\ opened = <<>>
    /\ exitCode = {}
    /\ indexWrites = 0
    /\ childFailed = FALSE
    /\ dirs0 = dirs
    /\ files0 = files
    /\ prevDone = FALSE
    /\ rerun = FALSE
    /\ plugins_given = FALSE

\* The program is started (again) on the same case directory: argparse
\* fixes args.plugins.  What the directory holds is from now on "stale".
Start ==
    /\ \/ pc = "idle"
       \/ pc \in { "exit", "killed" } /\ ~rerun
    /\ rerun' = (pc # "idle")
    /\ \E cmdline \in CommandLines :
         /\ plugins' = parse_plugins(cmdline)
         /\ plugins_given' = cmdline.plugins_given
    /\ pc' = "find_vol"
    /\ k' = 1
    /\ probes' = <<>>
    /\ vol' = None
    /\ i' = 1
    /\ summary' = <<>>
    /\ target' = <<>>
    /\ files' = [ p \in DOMAIN files |-> age(files[p]) ]
    /\ files0' = files'
    /\ dirs0' = dirs
    /\ running' = {}
    /\ spawned' = <<>>
    /\ opened' = <<>>
    /\ exitCode' = {}
    /\ indexWrites' = 0
    /\ childFailed' = FALSE
    /\ prevDone' = (pc = "exit" /\ exitCode = {0})
    /\ UNCHANGED dirs

\* find_vol, one iteration of the loop over CANDIDATE_CMDS
Probe ==
    /\ pc = "find_vol"
    /\ k <= Len(CANDIDATE_CMDS)
    /\ \E o \in ProbeOutcomes :
         /\ probes' = Append(probes, o)
         /\ IF "exc" \in DOMAIN o
            THEN IF o.exc = "FileNotFoundError"
                 THEN /\ k' = k + 1
                      /\ UNCHANGED <<pc, vol, exitCode>>
                 ELSE \* not caught: the traceback ends the program
                      /\ pc' = "exit"
                      /\ exitCode' = {1}
                      /\ UNCHANGED <<k, vol>>
            ELSE IF o.returncode \in {0, 1}
                 THEN /\ vol' = CANDIDATE_CMDS[k]
                      /\ pc' = "find_ret"
                      /\ UNCHANGED <<k, exitCode>>
                 ELSE /\ k' = k + 1
                      /\ UNCHANGED <<pc, vol, exitCode>>
    /\ UNCHANGED <<plugins, i, summary, target, dirs, files, running, spawned,
                   opened, indexWrites, childFailed, dirs0, files0, prevDone, rerun, plugins_given>>

\* find_vol, the loop is over: return None
FindVolNone ==
    /\ pc = "find_vol"
    /\ k > Len(CANDIDATE_CMDS)
    /\ vol' = None
    /\ pc' = "find_ret"
    /\ UNCHANGED <<plugins, k, probes, i, summary, target, dirs, files,
                   running, spawned, opened, exitCode, indexWrites,
                   childFailed, dirs0, files0, prevDone, rerun, plugins_given>>

\* the case directory made before the result of find_vol is looked at
NotFoundAfterMkdir ==
    /\ pc = "find_ret"
    /\ vol = None
    /\ dirs' = dirs \cup ancestors(Outdir) \cup { RawDir }
    /\ pc' = "exit"
    /\ exitCode' = {2}
    /\ UNCHANGED <<plugins, k, probes, vol, i, summary, target, files, running,
                   spawned, opened, indexWrites, childFailed, dirs0, files0,
                   prevDone, rerun, plugins_given>>

\* main: if not vol: ... sys.exit(2)
NotFound ==
    /\ pc = "find_ret"
    /\ vol = None
    /\ pc' = "exit"
    /\ exitCode' = {2}
    /\ UNCHANGED <<plugins, k, probes, vol, i, summary, target, dirs, files, running,
                   spawned, opened, indexWrites, childFailed, dirs0, files0,
                   prevDone, rerun, plugins_given>>

\* main: the two mkdir calls and the head of the summary
MakeCaseDir ==
    /\ pc = "find_ret"
    /\ vol # None
    /\ dirs' = dirs \cup ancestors(Outdir) \cup { RawDir }
    /\ summary' = << [image |-> Image], [volatility |-> vol],
                     [plugins |-> plugins], [heading |-> "Outputs"] >>
    /\ i' = 1
    /\ pc' = "loop"
    /\ probes' = <<>>
    /\ UNCHANGED <<plugins, k, vol, target, files, running, spawned, opened,
                   exitCode, indexWrites, childFailed, dirs0, files0,
                   prevDone, rerun, plugins_given>>

\* main: the loop body up to the open() of run_plugin
OpenTarget ==
    /\ pc = "loop"
    /\ i <= Len(plugins)
    /\ LET t == target_of(plugins[i])
       IN  /\ target' = t
           /\ IF parent(t) \in dirs
              THEN /\ files' = open_w(files, t)
                   /\ opened' = Append(opened, t)
                   /\ pc' = "spawn"
                   /\ UNCHANGED exitCode
              ELSE \* FileNotFoundError from open(), not caught
                   /\ pc' = "exit"
                   /\ exitCode' = {1}
                   /\ UNCHANGED <<files, opened>>
    /\ UNCHANGED <<plugins, k, probes, vol, i, summary, dirs, running,
                   spawned, indexWrites, childFailed, dirs0, files0,
                   prevDone, rerun, plugins_given>>

\* the child started and not awaited (Popen instead of run)
SpawnNoWait ==
    /\ pc = "spawn"
    /\ running' = running \cup { i }
    /\ spawned' = Append(spawned, i)
    /\ pc' = "append"
    /\ UNCHANGED <<plugins, k, probes, vol, i, summary, target, dirs, files,
                   opened, exitCode, indexWrites, childFailed, dirs0, files0,
                   prevDone, rerun, plugins_given>>

\* run_plugin: subprocess.run starts the child, or raises OSError
Spawn ==
    /\ pc = "spawn"
    /\ \/ /\ running' = running \cup { i }
          /\ spawned' = Append(spawned, i)
          /\ pc' = "wait"
          /\ UNCHANGED exitCode
       \/ /\ pc' = "exit"
          /\ exitCode' = {1}
          /\ UNCHANGED <<running, spawned>>
    /\ UNCHANGED <<plugins, k, probes, vol, i, summary, target, dirs, files,
                   opened, indexWrites, childFailed, dirs0, files0, prevDone, rerun, plugins_given>>

\* subprocess.run(..., check=True): a non-zero return code raises
ChildExitChecked ==
    /\ pc = "wait"
    /\ \E rc \in ReturnCodes :
         /\ files' = write_chunk(files, target,
                        [argv |-> argv_of(vol, Image, plugins[i]),
                         partial |-> FALSE])
         /\ childFailed' = (childFailed \/ rc # 0)
         /\ IF rc = 0
            THEN pc' = "append" /\ UNCHANGED exitCode
            ELSE pc' = "exit" /\ exitCode' = {1}
    /\ running' = running \ { i }
    /\ UNCHANGED <<plugins, k, probes, vol, i, summary, target, dirs, spawned,
                   opened, indexWrites, dirs0, files0, prevDone, rerun,
                   plugins_given>>

\* run_plugin: the child has written its output and terminated with rc;
\* subprocess.run returns and the CompletedProcess is dropped
ChildExit ==
    /\ pc = "wait"
    /\ \E rc \in ReturnCodes :
         /\ files' = write_chunk(files, target,
                        [argv |-> argv_of(vol, Image, plugins[i]),
                         partial |-> FALSE])
         /\ childFailed' = (childFailed \/ rc # 0)
    /\ running' = running \ { i }
    /\ pc' = "append"
    /\ UNCHANGED <<plugins, k, probes, vol, i, summary, target, dirs, spawned,
                   opened, exitCode, indexWrites, dirs0, files0, prevDone, rerun, plugins_given>>

\* INDEX.md rewritten inside the loop, after every plugin
AppendSummaryWritesIndex ==
    /\ pc = "append"
    /\ summary' = Append(summary, [output |-> target])
    /\ files' = write_chunk(open_a(files, IndexPath), IndexPath,
                            [text |-> summary', hints |-> TRUE])
    /\ indexWrites' = indexWrites + 1
    /\ i' = i + 1
    /\ pc' = "loop"
    /\ UNCHANGED <<plugins, k, probes, vol, target, dirs, running, spawned,
                   opened, exitCode, childFailed, dirs0, files0, prevDone,
                   rerun, plugins_given>>

\* main: summary.append(f"- `{target}`") and the next iteration
AppendSummary ==
    /\ pc = "append"
    /\ summary' = Append(summary, [output |-> target])
    /\ i' = i + 1
    /\ pc' = "loop"
    /\ UNCHANGED <<plugins, k, probes, vol, target, dirs, files, running,
                   spawned, opened, exitCode, indexWrites, childFailed, dirs0,
                   files0, prevDone, rerun, plugins_given>>

\* main: after the loop, write_text of INDEX.md and the normal end
WriteIndex ==
    /\ pc = "loop"
    /\ i > Len(plugins)
    /\ files' = write_chunk(open_w(files, IndexPath), IndexPath,
                            [text |-> summary, hints |-> TRUE])
    /\ indexWrites' = indexWrites + 1
    /\ pc' = "exit"
    /\ exitCode' = {0}
    /\ UNCHANGED <<plugins, k, probes, vol, i, summary, target, dirs,
                   running, spawned, opened, childFailed, dirs0, files0,
                   prevDone, rerun, plugins_given>>

\* An external interrupt kills the run and the child it waits for; what the
\* child had written so far stays in its file.
Interrupt ==
    /\ pc \in { "find_vol", "find_ret", "loop", "spawn", "wait", "append" }
    /\ pc' = "killed"
    /\ running' = {}
    /\ IF pc = "wait"
       THEN \/ UNCHANGED files
            \/ files' = write_chunk(files, target,
                           [argv |-> argv_of(vol, Image, plugins[i]),
                            partial |-> TRUE])
       ELSE UNCHANGED files
    /\ UNCHANGED <<plugins, k, probes, vol, i, summary, target, dirs, spawned,
                   opened, exitCode, indexWrites, childFailed, dirs0, files0,
                   prevDone, rerun, plugins_given>>

Next ==
    \/ Start
    \/ Probe
    \/ FindVolNone
    \/ NotFound
    \/ MakeCaseDir
    \/ OpenTarget
    \/ Spawn
    \/ ChildExit
    \/ AppendSummary
    \/ WriteIndex
    \/ Interrupt

Spec == Init /\ [][Next]_vars

-----------------------------------------------------------------------------
(* Properties                                                              *)

Range(s) == { s[j] : j \in DOMAIN s }

\* the run ended normally
Completed == pc = "exit" /\ exitCode = {0}

IsOutput(line) == "output" \in DOMAIN line

\* the "- `<target>`" lines of an INDEX.md text
OutputLines(text) == SelectSeq(text, IsOutput)

\* one output line per plugin of P[1..n], in the order of P
LinesFor(P, n) == [ j \in 1..n |-> [output |-> target_of(P[j])] ]

\* INDEX.md holds exactly one document, written by the current run
IndexOfThisRun ==
    /\ IndexPath \in DOMAIN files
    /\ Len(files[IndexPath]) = 1
    /\ "text" \in DOMAIN files[IndexPath][1]

\* INDEX.md is what it was when the current run started
IndexAsBefore ==
    IF IndexPath \in DOMAIN files0
    THEN IndexPath \in DOMAIN files /\ files[IndexPath] = files0[IndexPath]
    ELSE IndexPath \notin DOMAIN files

\* find_vol went through all candidates and none was accepted
NoCandidateLocated ==
    /\ vol = None
    /\ Len(probes) = Len(CANDIDATE_CMDS)
    /\ \A j \in DOMAIN probes : probes[j] # [exc |-> "OSError"]

Accepted(o) == "returncode" \in DOMAIN o /\ o.returncode \in {0, 1}

\* the first candidate whose probe was accepted, None if there is none
FirstAccepted(outs) ==
    IF \E j \in DOMAIN outs : Accepted(outs[j])
    THEN CANDIDATE_CMDS[CHOOSE j \in DOMAIN outs :
                           /\ Accepted(outs[j])
                           /\ \A h \in 1..(j - 1) : ~Accepted(outs[h])]
    ELSE None

\* C2: for every combination of probe outcomes find_vol returns the first
\* candidate that started and exited with 0 or 1, returns None only after
\* all three were probed without success, and a candidate that fails to
\* start or exits with another code never aborts the search (the search
\* goes on to the next candidate).
C2_FindVolTotal ==
    /\ pc = "find_ret" =>
          /\ vol = FirstAccepted(probes)
          /\ vol = None => Len(probes) = Len(CANDIDATE_CMDS)
    /\ \A j \in DOMAIN probes : ~Accepted(probes[j]) => k > j

\* C3: after a completed run one output file was created per list entry,
\* named <outdir>/raw/<name with "." replaced by "_">.txt, so the run wrote
\* as many files as the list has entries.
C3_OneFilePerEntry ==
    Completed =>
        /\ Len(opened) = Len(plugins)
        /\ \A j \in DOMAIN opened :
              opened[j] = Append(RawDir, txt_name(replace(plugins[j], ".", "_")))
        /\ Cardinality(Range(opened)) = Len(plugins)

\* the plugins the run has attempted when it ended
Attempted == IF i > Len(plugins) THEN Len(plugins) ELSE i

\* C4: whenever the tool was located, the run leaves an INDEX.md of its own
\* that lists every attempted plugin, one output line each in list order,
\* whether the plugin's child succeeded, failed or could not be executed.
C4_IndexListsAttempted ==
    (pc = "exit" /\ vol # None) =>
        /\ IndexOfThisRun
        /\ OutputLines(files[IndexPath][1].text) = LinesFor(plugins, Attempted)

\* C5: once the tool is located, whatever return code the child of plugin i
\* ends with, the run goes on (the summary line is appended and the loop
\* moves to plugin i+1, the exit code stays unset), and a run all of whose
\* children have terminated ends with exit code 0 and its INDEX.md written.
C5_ChildOutcomeNonFatal ==
    /\ [][ (pc = "wait" /\ pc' \notin { "wait", "killed" }) =>
              (pc' = "append" /\ i' = i /\ exitCode' = {} /\ running' = {}) ]_vars
    /\ [][ (pc = "append" /\ pc' \notin { "append", "killed" }) =>
              (pc' = "loop" /\ i' = i + 1 /\ exitCode' = {}) ]_vars
    /\ [] ( (pc = "exit" /\ vol # None /\ Len(spawned) = Len(plugins)) =>
               (exitCode = {0} /\ IndexOfThisRun /\ indexWrites = 1) )

C5_Witness ==
    /\ Completed
    /\ childFailed
    /\ Len(plugins) >= 2
    /\ IndexOfThisRun

\* C6: at most one plugin child runs at any moment, children are spawned in
\* list order, each entry once, the child of an entry only when no earlier
\* child is still running, and a completed run has spawned every entry.
C6_Sequential ==
    /\ Cardinality(running) <= 1
    /\ \A j \in DOMAIN spawned : spawned[j] = j
    /\ Len(spawned) <= Len(plugins)
    /\ running \subseteq { Len(spawned) }
    /\ running # {} => pc = "wait"
    /\ Completed => (Len(spawned) = Len(plugins) /\ running = {})

C6_Witness ==
    /\ pc = "wait"
    /\ spawned = <<1, 2>>
    /\ running = {2}

\* the last entry of the list that writes to path t
LastFor(t) ==
    CHOOSE j \in DOMAIN plugins :
        /\ target_of(plugins[j]) = t
        /\ \A h \in DOMAIN plugins : h > j => target_of(plugins[h]) # t

TargetsOf(P) == { target_of(P[j]) : j \in DOMAIN P }

\* C7: after a completed run that follows a completed run on the same case
\* directory, INDEX.md holds the second run's summary only, every file of a
\* plugin of the second list holds only output captured in the second run,
\* and every other file that was there before is unchanged.
C7_Rerun ==
    (Completed /\ prevDone) =>
        /\ files[IndexPath] = << [text |-> summary, hints |-> TRUE] >>
        /\ summary[3] = [plugins |-> plugins]
        /\ OutputLines(summary) = LinesFor(plugins, Len(plugins))
        /\ \A t \in TargetsOf(plugins) :
              files[t] = << [argv |-> argv_of(vol, Image, plugins[LastFor(t)]),
                             partial |-> FALSE] >>
        /\ \A p \in DOMAIN files0 :
              (p # IndexPath /\ p \notin TargetsOf(plugins)) =>
                  (p \in DOMAIN files /\ files[p] = files0[p])

C7_Witness ==
    /\ Completed
    /\ prevDone
    /\ files0[IndexPath] = << Stale >>
    /\ \E p \in DOMAIN files0 :
          /\ p # IndexPath
          /\ p \notin TargetsOf(plugins)
          /\ files[p] = << Stale >>
    /\ \E t \in TargetsOf(plugins) :
          t \in DOMAIN files0 /\ files0[t] = << Stale >>

\* C8: for every plugin name the file the run writes is a direct child of
\* <outdir>/raw, and the run writes no file outside <outdir>/raw other than
\* <outdir>/INDEX.md.
C8_FilesystemSafe ==
    /\ \A j \in DOMAIN opened : parent(opened[j]) = RawDir
    /\ \A p \in DOMAIN files :
          (p \notin DOMAIN files0 \/ files[p] # files0[p]) =>
              (p = IndexPath \/ parent(p) = RawDir)

DefaultNames ==
    << "pslist", "pstree", "netscan", "dlllist", "cmdline", "malfind" >>

\* cases/CASE001/raw/windows_<n>.txt
DefaultFile(n) ==
    << <<"cases">>, <<"CASE001">>, <<"raw">>, <<"windows", "_", n, ".txt">> >>

\* C9: without --plugins a completed run on image mem.raw and directory
\* cases/CASE001 has run the six default plugins in their order: it wrote
\* exactly the six files windows_<n>.txt under cases/CASE001/raw, each
\* holding the output of <tool> -f mem.raw windows.<n>, and
\* cases/CASE001/INDEX.md lists the six paths.
C9_DefaultRun ==
    (Completed /\ ~plugins_given) =>
        /\ Len(plugins) = Len(DefaultNames)
        /\ opened = [ j \in DOMAIN DefaultNames |-> DefaultFile(DefaultNames[j]) ]
        /\ \A j \in DOMAIN DefaultNames :
              files[DefaultFile(DefaultNames[j])] =
                  << [argv |-> << vol, <<"-f">>, <<"mem", ".", "raw">>,
                                  <<"windows", ".", DefaultNames[j]>> >>,
                      partial |-> FALSE] >>
        /\ vol \in Range(CANDIDATE_CMDS)
        /\ IndexPath = << <<"cases">>, <<"CASE001">>, <<"INDEX", ".", "md">> >>
        /\ IndexOfThisRun
        /\ OutputLines(files[IndexPath][1].text) =
              [ j \in DOMAIN DefaultNames |->
                  [output |-> DefaultFile(DefaultNames[j])] ]

C9_Witness ==
    /\ Completed
    /\ ~plugins_given
    /\ Len(opened) = Len(DefaultNames)

\* C10: a run writes INDEX.md at most once, and only when every plugin of
\* the list has been attempted and its child has terminated; while a plugin
\* is still to finish, and after an interrupt, INDEX.md is what it was
\* before the run and the files opened so far are in place.
C10_IndexLast ==
    /\ indexWrites <= 1
    /\ indexWrites = 1 =>
          /\ pc = "exit"
          /\ i > Len(plugins)
          /\ Len(spawned) = Len(plugins)
          /\ running = {}
    /\ (i <= Len(plugins) \/ running # {}) => (indexWrites = 0 /\ IndexAsBefore)
    /\ pc = "killed" =>
          /\ indexWrites = 0
          /\ IndexAsBefore
          /\ \A j \in DOMAIN opened : opened[j] \in DOMAIN files

C10_Witness ==
    /\ pc = "killed"
    /\ prevDone
    /\ Len(opened) = 2
    /\ files[IndexPath] = << Stale >>
    /\ files[opened[1]] # << >>
    /\ files[opened[1]] # << Stale >>
    /\ files[opened[2]] =
          << [argv |-> argv_of(vol, Image, plugins[2]), partial |-> TRUE] >>

====
